---- MODULE Spec2Model ----
(***************************************************************************)
(* Print orchestrator of glory-pos-app (PrinterService.ts) with the three  *)
(* transport adapters seen through their connect / disconnect /            *)
(* sendRawData contract.                                                   *)
(*                                                                         *)
(* One step of the model is one macrotask of the JavaScript event loop:    *)
(* the code from one suspension point (an adapter or storage I/O call, a   *)
(* timer) up to the next one, every promise continuation that needs no     *)
(* I/O included.                                                           *)
(***************************************************************************)
EXTENDS Integers, Sequences, FiniteSets, TLC

\* ---------------------------------------------------------------- bounds
MaxJobs == 2
MaxConnects == 2
MaxDisconnects == 1
MaxClears == 1
MaxNetCloses == 1
MaxListeners == 2
MaxSockets == 3
MaxSends == 2
MaxBtCalls == 4
MaxUsbCalls == 3
MaxPrinters == 2
MaxText == 49
MaxText3 == 17
MaxInitCalls == 2
MaxWords == 3
MaxSku == 256
MaxQuantity == 3

\* ------------------------------------------------------- program constants
\* executePrintJob: "if (job.retryCount < 3)"
MaxRetries == 3

\* BluetoothPrinterClass.maxReconnectAttempts
maxReconnectAttempts == 3

NoPrinter == "null"

\* NetworkPrinterClass.socket is null
NoSocket == 0

\* PrinterConnectionType of the profiles the user can connect to
Profiles == {"bluetooth", "usb", "network"}

\* PrinterConfig.type of a profile
KindOf(p) == p

\* PrintJobType, and a type outside it (addPrintJob does not validate its argument)
SupportedJobTypes == {"KOT", "INVOICE", "BARCODE", "BARCODE_LABEL"}

JobTypes == SupportedJobTypes \cup {"OTHER"}

\* The four supported types take the same path through the orchestrator; the
\* specifications that do not study the job type submit this one.
UsualJobTypes == {"KOT"}

\* Transports whose send settles without leaving the JavaScript thread:
\* NetworkPrinter.sendRawData resolves or rejects inside the Promise executor
\* from the boolean socket.write returns.
SyncSendKinds == {"network"}

\* Transports whose disconnect() contains no awaited I/O when a session is open
SyncDisconnectKinds == {"network"}

VARIABLES
    status,             \* state.status
    connectedPrinter,   \* state.connectedPrinter (NoPrinter or a profile)
    lastError,          \* state.lastError is non-null
    printQueue,         \* state.printQueue: job ids in queue order
    jobs,               \* every PrintJob object ever created, by id
    isProcessingQueue,  \* the drain flag
    drains,             \* processQueue invocations suspended in a send
    timers,             \* retry timers scheduled and not yet fired
    connects,           \* connect() invocations suspended in adapter or storage I/O
    disconnects,        \* disconnect() invocations suspended in adapter teardown
    adapterOpen,        \* per transport: the adapter holds a session
    ev,                 \* per job: events emitted and sendToPrinter calls so far
    calls,              \* number of connect / disconnect / clearQueue calls, socket closes
    view,               \* a value returned by getState() and kept by its caller
    listeners,          \* eventListeners, in insertion order
    net,                \* NetworkPrinterClass and the TCP sockets it created
    bt,                 \* BluetoothPrinterClass and its suspended calls
    usb,                \* USBPrinterClass and its suspended calls
    store,              \* AsyncStorage as PrinterStorageClass reads and writes it
    enc,                \* the last line an ESCPOSEncoder laid out
    svc                 \* PrinterServiceClass.initialize and its suspended calls

vars == << status, connectedPrinter, lastError, printQueue, jobs, isProcessingQueue,
           drains, timers, connects, disconnects, adapterOpen, ev, calls,
           view, listeners, net, bt, usb, store, enc, svc >>

\* The objects the orchestrator's handlers do not touch
apart == << net, bt, usb, store, enc, svc >>

\* The orchestrator's own fields
orch == << status, connectedPrinter, lastError, printQueue, jobs, isProcessingQueue,
           drains, timers, connects, disconnects, adapterOpen, ev, calls >>

JobIds == 1..Len(jobs)

InQueue(j) == \E i \in 1..Len(printQueue) : printQueue[i] = j

\* ------------------------------------------------------------ sequences
RemoveAt(s, i) == SubSeq(s, 1, i - 1) \o SubSeq(s, i + 1, Len(s))

\* ------------------------------------------------------- event listeners
\* emit: every callback is called inside its own try/catch. The result names
\* the listeners that were called and tells whether an exception leaves emit.
RECURSIVE EmitFrom(_, _)
EmitFrom(ls, i) ==
    IF i > Len(ls)
    THEN [called |-> {}, threw |-> FALSE]
    ELSE LET rest == EmitFrom(ls, i + 1)
         IN  [called |-> {i} \cup rest.called, threw |-> rest.threw]

\* forEach without the try/catch: the first throwing callback ends the loop
RECURSIVE EmitNoCatchFrom(_, _)
EmitNoCatchFrom(ls, i) ==
    IF i > Len(ls)
    THEN [called |-> {}, threw |-> FALSE]
    ELSE IF ls[i].throws
         THEN [called |-> {i}, threw |-> TRUE]
         ELSE LET rest == EmitNoCatchFrom(ls, i + 1)
              IN  [called |-> {i} \cup rest.called, threw |-> rest.threw]

\* emit with the callbacks' exceptions left uncaught
EmitNoCatch(ls) == EmitNoCatchFrom(ls, 1)

\* emit
Emit(ls) == EmitFrom(ls, 1)

\* Number of print_started events in the per-job event counts e
RECURSIVE StartedUpTo(_, _)
StartedUpTo(e, n) == IF n = 0 THEN 0 ELSE e[n].started + StartedUpTo(e, n - 1)

\* Number of print_started events the macrotask that ends in orchestrator
\* record o emitted
StartedIn(o) == StartedUpTo(o.ev, Len(o.ev)) - StartedUpTo(ev, Len(ev))

\* The listeners after that macrotask: due counts the print_started events
\* emitted since the listener subscribed, got those its callback was called with
ListenersAfter(o) ==
    [i \in 1..Len(listeners) |->
        [listeners[i] EXCEPT
            !.due = @ + StartedIn(o),
            !.got = IF i \in Emit(listeners).called THEN @ + StartedIn(o) ELSE @]]

\* ------------------------------------------------- values of getState()
\* getState() returns a shallow copy of this.state: the copy holds the same
\* printQueue array and the same job objects as the orchestrator. shared tells
\* whether that array is still the orchestrator's; queue is the array's content
\* now; queueAt and jobsAt are the queue and the jobs when getState() returned.
NoView == [taken |-> FALSE, shared |-> FALSE, queue |-> << >>,
           queueAt |-> << >>, jobsAt |-> << >>]

\* The macrotask that ends in orchestrator record o assigned a new array to
\* state.printQueue (removeJobFromQueue)
QueueReplacedIn(o) ==
    \E j \in 1..Len(o.ev) :
        o.ev[j].completed + o.ev[j].failed >
            (IF j <= Len(ev) THEN ev[j].completed + ev[j].failed ELSE 0)

\* The kept value after that macrotask: a push of addPrintJob goes to the
\* shared array; an assignment to state.printQueue ends the sharing
ViewAfter(o) ==
    IF ~view.taken THEN view
    ELSE [view EXCEPT
            !.queue = IF view.shared /\ Len(o.jobs) > Len(jobs)
                      THEN Append(@, Len(o.jobs)) ELSE @,
            !.shared = @ /\ ~QueueReplacedIn(o)]

\* ------------------------------------------------- orchestrator, as a record
\* The fields one macrotask of the orchestrator reads and writes.
Cur ==
    [ status |-> status, cp |-> connectedPrinter, printQueue |-> printQueue,
      jobs |-> jobs, isProcessingQueue |-> isProcessingQueue, drains |-> drains,
      timers |-> timers, adapterOpen |-> adapterOpen, ev |-> ev ]

Commit(o) ==
    /\ status' = o.status
    /\ connectedPrinter' = o.cp
    /\ printQueue' = o.printQueue
    /\ jobs' = o.jobs
    /\ isProcessingQueue' = o.isProcessingQueue
    /\ drains' = o.drains
    /\ timers' = o.timers
    /\ adapterOpen' = o.adapterOpen
    /\ ev' = o.ev
    /\ view' = ViewAfter(o)
    /\ listeners' = ListenersAfter(o)
    /\ UNCHANGED apart

\* removeJobFromQueue
RemoveJobFromQueue(q, j) == SelectSeq(q, LAMBDA x : x # j)

\* executePrintJob throws before it calls sendToPrinter: an exception leaves
\* emit(print_started), or the chain of tests on job.type ends in "throw new Error"
EncodeThrows(o, j) ==
    \/ Emit(listeners).threw
    \/ o.jobs[j].type \notin SupportedJobTypes

\* executePrintJob up to "await this.sendToPrinter(printData)", or up to the
\* throw for an unsupported job type
BeginJob(o, j) ==
    [o EXCEPT !.jobs[j].status = "printing",
              !.status = "printing",
              !.ev[j].started = @ + 1,
              !.ev[j].sendAttempts = IF EncodeThrows(o, j) THEN @ ELSE @ + 1]

\* sendToPrinter and the adapters' sendRawData reject before any I/O
SendThrowsNow(o) ==
    \/ o.cp = NoPrinter
    \/ ~o.adapterOpen[KindOf(o.cp)]

\* JobSucceeded without the call of removeJobFromQueue
JobSucceededStaysQueued(o, j) ==
    [o EXCEPT !.jobs[j].status = "completed",
              !.status = "connected",
              !.ev[j].completed = @ + 1]

\* executePrintJob after the send resolved
JobSucceeded(o, j) ==
    [o EXCEPT !.jobs[j].status = "completed",
              !.printQueue = RemoveJobFromQueue(@, j),
              !.status = "connected",
              !.ev[j].completed = @ + 1]

\* JobFailed with the retry test off by one (retryCount <= 3)
JobFailedOffByOne(o, j) ==
    LET rc == o.jobs[j].retryCount + 1 IN
    IF rc <= MaxRetries
    THEN [o EXCEPT !.jobs[j].retryCount = rc,
                   !.jobs[j].error = TRUE,
                   !.jobs[j].status = "pending",
                   !.timers = @ + 1,
                   !.status = "connected"]
    ELSE [o EXCEPT !.jobs[j].retryCount = rc,
                   !.jobs[j].error = TRUE,
                   !.jobs[j].status = "failed",
                   !.printQueue = SelectSeq(@, LAMBDA x : x # j),
                   !.ev[j].failed = @ + 1,
                   !.status = "connected"]

\* executePrintJob's catch block
JobFailed(o, j) ==
    LET rc == o.jobs[j].retryCount + 1 IN
    IF rc < MaxRetries
    THEN [o EXCEPT !.jobs[j].retryCount = rc,
                   !.jobs[j].error = TRUE,
                   !.jobs[j].status = "pending",
                   !.timers = @ + 1,
                   !.status = "connected"]
    ELSE [o EXCEPT !.jobs[j].retryCount = rc,
                   !.jobs[j].error = TRUE,
                   !.jobs[j].status = "failed",
                   !.printQueue = RemoveJobFromQueue(@, j),
                   !.ev[j].failed = @ + 1,
                   !.status = "connected"]

\* The for loop of processQueue from position i of its snapshot, up to the
\* next send that needs I/O or to the end of the loop.
RECURSIVE RunLoop(_, _, _)
RunLoop(o, snap, i) ==
    IF i > Len(snap) \/ o.status # "connected"
    THEN [o EXCEPT !.isProcessingQueue = FALSE]
    ELSE LET j == snap[i]
             o1 == BeginJob(o, j)
         IN  IF EncodeThrows(o1, j) \/ SendThrowsNow(o1)
             THEN RunLoop(JobFailed(o1, j), snap, i + 1)
             ELSE [o1 EXCEPT !.drains =
                      Append(@, [snap |-> snap, idx |-> i, kind |-> KindOf(o1.cp)])]

\* PendingJobs in the opposite order
PendingJobsReversed(o) ==
    LET q == SelectSeq(o.printQueue, LAMBDA j : o.jobs[j].status = "pending")
    IN  [i \in 1..Len(q) |-> q[Len(q) + 1 - i]]

\* The filter of processQueue
PendingJobs(o) == SelectSeq(o.printQueue, LAMBDA j : o.jobs[j].status = "pending")

\* ProcessQueue without the "no printer connected" return
ProcessQueueNoPrinterCheck(o) ==
    IF o.isProcessingQueue THEN o
    ELSE IF PendingJobs(o) = << >> THEN o
    ELSE RunLoop([o EXCEPT !.isProcessingQueue = TRUE], PendingJobs(o), 1)

\* processQueue
ProcessQueue(o) ==
    IF o.isProcessingQueue THEN o
    ELSE IF PendingJobs(o) = << >> THEN o
    ELSE IF o.status # "connected" \/ o.cp = NoPrinter THEN o
    ELSE RunLoop([o EXCEPT !.isProcessingQueue = TRUE], PendingJobs(o), 1)

\* No continuation is waiting in the microtask queue: a send on a transport of
\* SyncSendKinds settles before any timer, I/O completion or user call runs.
Quiescent == \A d \in 1..Len(drains) : drains[d].kind \notin SyncSendKinds

\* ------------------------------------------------------ initial objects
\* NetworkPrinterClass after construction: no socket, not connected. writes
\* counts the calls of socket.write, sent lists how each sendRawData settled.
NetInit == [socket |-> NoSocket, isConnected |-> FALSE, socks |-> << >>,
            timeouts |-> {}, writes |-> 0, sent |-> << >>]

\* BluetoothPrinterClass after initialize() loaded the library: no device,
\* no reconnect attempt. ops lists the calls made so far, each with the await
\* it is suspended at or the way it settled; writes counts printText calls.
BtInit == [connectedDevice |-> FALSE, reconnectAttempts |-> 0, ops |-> << >>,
           writes |-> 0]

\* USBPrinterClass after initialize() loaded the library
UsbInit == [isConnected |-> FALSE, ops |-> << >>, writes |-> 0]

\* AsyncStorage with no printer saved. printers is the list under the key
\* PRINTERS, defaultId the value under DEFAULT_PRINTER; ok tells whether the
\* last PrinterStorage call resolved, failed whether any call has rejected,
\* last which call it was.
StoreInit == [printers |-> << >>, defaultId |-> NoPrinter, ok |-> TRUE, failed |-> FALSE,
              last |-> "none"]

\* No encoder made yet. Afterwards: the method called on a new encoder, its
\* arguments, whether it threw, the string it handed to line() last, all the
\* strings it handed to line(), the bytes in the encoder's buffer and, for
\* generateTSPLLabel, the script returned.
EncInit == [call |-> "none", paperWidth |-> 80, args |-> << >>, threw |-> FALSE,
            line |-> << >>, lines |-> << >>, buffer |-> << >>, script |-> ""]

\* PrinterServiceClass before initialize() was called. ops lists the calls
\* of initialize(), each suspended in a read of getDefaultPrinter or "done";
\* autoConnects counts the auto-connect timers scheduled.
SvcInit == [isInitialized |-> FALSE, ops |-> << >>, autoConnects |-> 0]

\* ---------------------------------------------------------------- Init
Init ==
    /\ status = "disconnected"
    /\ connectedPrinter = NoPrinter
    /\ lastError = FALSE
    /\ printQueue = << >>
    /\ jobs = << >>
    /\ isProcessingQueue = FALSE
    /\ drains = << >>
    /\ timers = 0
    /\ connects = << >>
    /\ disconnects = << >>
    /\ adapterOpen = [k \in Profiles |-> FALSE]
    /\ ev = << >>
    /\ calls = [connect |-> 0, disconnect |-> 0, clear |-> 0, netClose |-> 0]
    /\ view = NoView
    /\ listeners = << >>
    /\ net = NetInit
    /\ bt = BtInit
    /\ usb = UsbInit
    /\ store = StoreInit
    /\ enc = EncInit
    /\ svc = SvcInit

\* ------------------------------------------------------------- actions
\* addPrintJob
AddPrintJob(t) ==
    /\ Quiescent
    /\ Len(jobs) < MaxJobs
    /\ LET j == Len(jobs) + 1
           o == [Cur EXCEPT
                   !.jobs = Append(@, [type |-> t, status |-> "pending",
                                       retryCount |-> 0, error |-> FALSE]),
                   !.ev = Append(@, [started |-> 0, sendAttempts |-> 0,
                                     completed |-> 0, failed |-> 0]),
                   !.printQueue = Append(@, j)]
       IN  Commit(ProcessQueue(o))
    /\ UNCHANGED << lastError, connects, disconnects, calls >>

\* The callback of the setTimeout in executePrintJob's catch block
RetryTimer ==
    /\ Quiescent
    /\ timers > 0
    /\ Commit(ProcessQueue([Cur EXCEPT !.timers = @ - 1,
                                       !.isProcessingQueue = FALSE]))
    /\ UNCHANGED << lastError, connects, disconnects, calls >>

\* The awaited send of drain d resolves
SendResolve(d) ==
    /\ d \in 1..Len(drains)
    /\ Quiescent \/ drains[d].kind \in SyncSendKinds
    /\ LET r == drains[d]
           j == r.snap[r.idx]
           o == [Cur EXCEPT !.drains = RemoveAt(@, d)]
       IN  Commit(RunLoop(JobSucceeded(o, j), r.snap, r.idx + 1))
    /\ UNCHANGED << lastError, connects, disconnects, calls >>

\* The awaited send of drain d rejects. On Bluetooth the adapter's reconnect
\* attempts run inside the send; they may lose the session (drop).
SendReject(d, drop) ==
    /\ d \in 1..Len(drains)
    /\ Quiescent \/ drains[d].kind \in SyncSendKinds
    /\ drop => drains[d].kind = "bluetooth"
    /\ LET r == drains[d]
           j == r.snap[r.idx]
           o == [Cur EXCEPT !.drains = RemoveAt(@, d),
                            !.adapterOpen[r.kind] = IF drop THEN FALSE ELSE @]
       IN  Commit(RunLoop(JobFailed(o, j), r.snap, r.idx + 1))
    /\ UNCHANGED << lastError, connects, disconnects, calls >>

\* KeptByClear emptying the queue
KeptByClearNothing(q, js) == SelectSeq(q, LAMBDA j : FALSE)

\* The filter of clearQueue
KeptByClear(q, js) == SelectSeq(q, LAMBDA j : js[j].status = "printing")

\* clearQueue
ClearQueue ==
    /\ Quiescent
    /\ calls.clear < MaxClears
    /\ printQueue' = KeptByClear(printQueue, jobs)
    /\ calls' = [calls EXCEPT !.clear = @ + 1]
    /\ view' = [view EXCEPT !.shared = FALSE]
    /\ UNCHANGED << status, connectedPrinter, lastError, jobs, isProcessingQueue,
                    drains, timers, connects, disconnects, adapterOpen, ev, listeners, apart >>

\* connect(config) up to the awaited adapter connect
ConnectCall(p) ==
    /\ Quiescent
    /\ calls.connect < MaxConnects
    /\ status' = "connecting"
    /\ lastError' = FALSE
    /\ connects' = Append(connects, [cfg |-> p, phase |-> "adapter"])
    /\ calls' = [calls EXCEPT !.connect = @ + 1]
    /\ UNCHANGED << connectedPrinter, printQueue, jobs, isProcessingQueue, drains,
                    timers, disconnects, adapterOpen, ev,
                    view, listeners, apart >>

\* connect(config) with a config.type outside the switch: the default branch
\* throws before any await and the catch block runs in the same macrotask
ConnectUnsupported ==
    /\ Quiescent
    /\ calls.connect < MaxConnects
    /\ status' = "error"
    /\ lastError' = TRUE
    /\ calls' = [calls EXCEPT !.connect = @ + 1]
    /\ UNCHANGED << connectedPrinter, printQueue, jobs, isProcessingQueue, drains,
                    timers, connects, disconnects, adapterOpen, ev,
                    view, listeners, apart >>

\* The adapter's connect resolved true: connect(config) up to the awaited store
AdapterConnectOk(c) ==
    /\ Quiescent
    /\ c \in 1..Len(connects)
    /\ connects[c].phase = "adapter"
    /\ adapterOpen' = [adapterOpen EXCEPT ![KindOf(connects[c].cfg)] = TRUE]
    /\ status' = "connected"
    /\ connectedPrinter' = connects[c].cfg
    /\ lastError' = FALSE
    /\ connects' = [connects EXCEPT ![c].phase = "storage"]
    /\ UNCHANGED << printQueue, jobs, isProcessingQueue, drains, timers,
                    disconnects, ev, calls,
                    view, listeners, apart >>

\* The adapter's connect rejected: the catch block of connect(config)
AdapterConnectFail(c) ==
    /\ Quiescent
    /\ c \in 1..Len(connects)
    /\ connects[c].phase = "adapter"
    /\ adapterOpen' = [adapterOpen EXCEPT ![KindOf(connects[c].cfg)] = FALSE]
    /\ status' = "error"
    /\ lastError' = TRUE
    /\ connects' = RemoveAt(connects, c)
    /\ UNCHANGED << connectedPrinter, printQueue, jobs, isProcessingQueue, drains,
                    timers, disconnects, ev, calls,
                    view, listeners, apart >>

\* updateLastConnected and savePrinter resolved: device_connected, processQueue
StorageOk(c) ==
    /\ Quiescent
    /\ c \in 1..Len(connects)
    /\ connects[c].phase = "storage"
    /\ connects' = RemoveAt(connects, c)
    /\ Commit(ProcessQueue(Cur))
    /\ UNCHANGED << lastError, disconnects, calls >>

\* updateLastConnected or savePrinter rejected: the catch block of connect(config)
StorageFail(c) ==
    /\ Quiescent
    /\ c \in 1..Len(connects)
    /\ connects[c].phase = "storage"
    /\ connects' = RemoveAt(connects, c)
    /\ status' = "error"
    /\ lastError' = TRUE
    /\ UNCHANGED << connectedPrinter, printQueue, jobs, isProcessingQueue, drains,
                    timers, disconnects, adapterOpen, ev, calls,
                    view, listeners, apart >>

\* disconnect() with a profile connected. The adapter's teardown needs no I/O
\* when it holds no session or is of SyncDisconnectKinds; otherwise disconnect()
\* is suspended in it.
DisconnectCall ==
    /\ Quiescent
    /\ calls.disconnect < MaxDisconnects
    /\ connectedPrinter # NoPrinter
    /\ calls' = [calls EXCEPT !.disconnect = @ + 1]
    /\ LET k == KindOf(connectedPrinter) IN
       IF k \in SyncDisconnectKinds \/ ~adapterOpen[k]
       THEN /\ adapterOpen' = [adapterOpen EXCEPT ![k] = FALSE]
            /\ status' = "disconnected"
            /\ connectedPrinter' = NoPrinter
            /\ UNCHANGED disconnects
       ELSE /\ disconnects' = Append(disconnects, k)
            /\ UNCHANGED << adapterOpen, status, connectedPrinter >>
    /\ UNCHANGED << lastError, printQueue, jobs, isProcessingQueue, drains, timers,
                    connects, ev,
                    view, listeners, apart >>

\* disconnect() with no profile connected: "if (!this.state.connectedPrinter) return"
DisconnectNoProfile ==
    /\ Quiescent
    /\ calls.disconnect < MaxDisconnects
    /\ connectedPrinter = NoPrinter
    /\ calls' = [calls EXCEPT !.disconnect = @ + 1]
    /\ UNCHANGED << status, connectedPrinter, lastError, printQueue, jobs,
                    isProcessingQueue, drains, timers, connects, disconnects,
                    adapterOpen, ev,
                    view, listeners, apart >>

\* The adapter's teardown settled (either way): the rest of disconnect()
DisconnectDone(x) ==
    /\ Quiescent
    /\ x \in 1..Len(disconnects)
    /\ adapterOpen' = [adapterOpen EXCEPT ![disconnects[x]] = FALSE]
    /\ disconnects' = RemoveAt(disconnects, x)
    /\ status' = "disconnected"
    /\ connectedPrinter' = NoPrinter
    /\ UNCHANGED << lastError, printQueue, jobs, isProcessingQueue, drains, timers,
                    connects, ev, calls,
                    view, listeners, apart >>

\* The socket's "close" event of NetworkPrinter
NetClose ==
    /\ Quiescent
    /\ calls.netClose < MaxNetCloses
    /\ adapterOpen["network"]
    /\ adapterOpen' = [adapterOpen EXCEPT !["network"] = FALSE]
    /\ calls' = [calls EXCEPT !.netClose = @ + 1]
    /\ UNCHANGED << status, connectedPrinter, lastError, printQueue, jobs,
                    isProcessingQueue, drains, timers, connects, disconnects, ev,
                    view, listeners, apart >>

Next ==
    \/ \E t \in UsualJobTypes : AddPrintJob(t)
    \/ RetryTimer
    \/ \E d \in 1..Len(drains) : SendResolve(d)
    \/ \E d \in 1..Len(drains), drop \in BOOLEAN : SendReject(d, drop)
    \/ ClearQueue
    \/ \E p \in Profiles : ConnectCall(p)
    \/ ConnectUnsupported
    \/ \E c \in 1..Len(connects) : AdapterConnectOk(c)
    \/ \E c \in 1..Len(connects) : AdapterConnectFail(c)
    \/ \E c \in 1..Len(connects) : StorageOk(c)
    \/ \E c \in 1..Len(connects) : StorageFail(c)
    \/ DisconnectCall
    \/ DisconnectNoProfile
    \/ \E x \in 1..Len(disconnects) : DisconnectDone(x)
    \/ NetClose

Spec == Init /\ [][Next]_vars

\* Sends, adapter connects, store writes and adapter teardowns settle, and a
\* scheduled timer fires; calls from the user interface are never forced.
SendSettles == \E d \in 1..Len(drains), drop \in BOOLEAN : SendResolve(d) \/ SendReject(d, drop)

ConnectSettles ==
    \E c \in 1..Len(connects) :
        AdapterConnectOk(c) \/ AdapterConnectFail(c) \/ StorageOk(c) \/ StorageFail(c)

TeardownSettles == \E x \in 1..Len(disconnects) : DisconnectDone(x)

FairSpec ==
    /\ Init /\ [][Next]_vars
    /\ WF_vars(RetryTimer)
    /\ WF_vars(SendSettles)
    /\ WF_vars(ConnectSettles)
    /\ WF_vars(TeardownSettles)

\* ------------------------------------------------------------ properties
AllJobs == 1..MaxJobs

\* A terminal event (print_completed or print_failed) was emitted for job j
Terminal(j) == ev[j].completed + ev[j].failed > 0

\* The orchestrator holds a profile and reports it usable
PrinterUp == connectedPrinter # NoPrinter /\ status \in {"connected", "printing"}

\* C1: at most one job has status 'printing' and at most one send is in flight,
\* in every reachable state.
C1_SinglePrinting ==
    /\ Cardinality({j \in JobIds : jobs[j].status = "printing"}) <= 1
    /\ Len(drains) <= 1

\* C2: when a job has had its terminal event, no job submitted before it is
\* still in the queue waiting for its own terminal event.
C2_TerminalInSubmissionOrder ==
    \A a, b \in JobIds :
        (a < b /\ Terminal(b)) => ~(InQueue(a) /\ ~Terminal(a))

\* C3: no step leaves a job with a retryCount above 3, and no step makes a
\* send attempt for a job whose retryCount has already reached 3.
C3_RetryBound ==
    [][ \A j \in JobIds :
            /\ jobs'[j].retryCount <= MaxRetries
            /\ jobs[j].retryCount >= MaxRetries =>
                   ev'[j].sendAttempts = ev[j].sendAttempts ]_vars

\* The case of C4: one job only, never completed, at most the connect that
\* brought the printer up, no disconnect and no clearQueue.
C4_Case ==
    /\ Len(jobs) = 1
    /\ ev[1].completed = 0
    /\ calls.connect <= 1
    /\ calls.disconnect = 0
    /\ calls.clear = 0

\* C4: a single job whose every send fails alternates pending and printing,
\* is attempted exactly 3 times, then is failed with exactly one print_failed
\* event and removed from the queue; while it waits for a retry with the
\* printer up, a retry timer is scheduled.
C4_SingleJobRetries ==
    C4_Case =>
        LET J == jobs[1]
            E == ev[1]
        IN  /\ J.status \in {"pending", "printing", "failed"}
            /\ J.retryCount <= MaxRetries
            /\ E.sendAttempts = J.retryCount + (IF J.status = "printing" THEN 1 ELSE 0)
            /\ E.started = E.sendAttempts
            /\ (J.status = "failed") <=> (J.retryCount = MaxRetries)
            /\ E.failed = (IF J.status = "failed" THEN 1 ELSE 0)
            /\ InQueue(1) <=> (J.status # "failed")
            /\ (J.status = "pending" /\ J.retryCount > 0 /\ PrinterUp) => timers >= 1

C4_Witness ==
    /\ C4_Case
    /\ jobs[1].status = "failed"
    /\ ev[1].sendAttempts = 3
    /\ ev[1].failed = 1
    /\ printQueue = << >>
    /\ status = "connected"
    /\ connectedPrinter # NoPrinter
    /\ adapterOpen[KindOf(connectedPrinter)]
    /\ calls.netClose = 0

\* C5: status 'connected' or 'printing' only with a profile set, and status
\* 'disconnected' only with no profile set.
C5_StatusMatchesProfile ==
    /\ status \in {"connected", "printing"} => connectedPrinter # NoPrinter
    /\ status = "disconnected" => connectedPrinter = NoPrinter

\* C6: once disconnect() has completed (status 'disconnected'), no step other
\* than clearQueue touches a pending job of the queue: it stays queued,
\* pending, with the same retryCount, and is not attempted.
C6_DrainStopsAfterDisconnect ==
    [][ (status = "disconnected" /\ calls'.clear = calls.clear) =>
            \A j \in JobIds :
                (InQueue(j) /\ jobs[j].status = "pending") =>
                    /\ jobs'[j] = jobs[j]
                    /\ ev'[j] = ev[j]
                    /\ InQueue(j)' ]_vars

\* C7: a queued job eventually leaves the queue unless the printer goes away.
C7_EveryJobLeaves ==
    \A j \in AllJobs :
        (j \in JobIds /\ InQueue(j)) ~> (~InQueue(j) \/ ~PrinterUp)

\* C8: a job put back to 'pending' after a failed attempt is eventually
\* attempted again (or leaves the queue) unless the printer goes away.
C8_RetryHappens ==
    \A j \in AllJobs :
        (j \in JobIds /\ InQueue(j) /\ jobs[j].status = "pending"
                      /\ jobs[j].retryCount > 0)
            ~> (~InQueue(j) \/ jobs[j].status # "pending" \/ ~PrinterUp)

\* The steps that call processQueue from outside a drain
DrainTrigger ==
    \/ \E t \in JobTypes : AddPrintJob(t)
    \/ RetryTimer
    \/ \E c \in 1..Len(connects) : StorageOk(c)

\* C9: a drain triggered while no printer is connected consumes nothing:
\* no job changes, none is started, sent or failed, none leaves the queue, and
\* a job submitted by the step is queued pending with retryCount 0.
C9_NoPrinterDrainConsumesNothing ==
    [][ ((status # "connected" \/ connectedPrinter = NoPrinter) /\ DrainTrigger) =>
            /\ \A j \in JobIds : jobs'[j] = jobs[j] /\ ev'[j] = ev[j]
            /\ SubSeq(printQueue', 1, Len(printQueue)) = printQueue
            /\ drains' = drains
            /\ status' = status
            /\ \A j \in (1..Len(jobs')) \ JobIds :
                   /\ jobs'[j].status = "pending"
                   /\ jobs'[j].retryCount = 0
                   /\ ~jobs'[j].error
                   /\ ev'[j] = [started |-> 0, sendAttempts |-> 0,
                                completed |-> 0, failed |-> 0]
                   /\ printQueue' = Append(printQueue, j) ]_vars

C9_Witness ==
    /\ status = "disconnected"
    /\ connectedPrinter = NoPrinter
    /\ timers = 0
    /\ drains = << >>
    /\ Len(printQueue) = 2
    /\ \E j \in JobIds : jobs[j].status = "pending" /\ jobs[j].retryCount = 1
    /\ \E j \in JobIds : jobs[j].status = "pending" /\ ev[j].started = 0

\* C10: clearQueue keeps exactly the queued jobs whose status is 'printing',
\* and changes no job, no send in flight and no scheduled retry.
C10_ClearKeepsInFlight ==
    [][ calls'.clear = calls.clear + 1 =>
            /\ \A j \in JobIds :
                   InQueue(j)' <=> (InQueue(j) /\ jobs[j].status = "printing")
            /\ Len(printQueue') <= Len(printQueue)
            /\ jobs' = jobs
            /\ drains' = drains
            /\ ev' = ev
            /\ timers' = timers
            /\ status' = status ]_vars

C10_Witness ==
    /\ calls.clear = 1
    /\ \E j \in JobIds :
          /\ InQueue(j)
          /\ jobs[j].status = "printing"
          /\ \E d \in 1..Len(drains) : drains[d].snap[drains[d].idx] = j
    /\ \E k \in JobIds : ~InQueue(k) /\ jobs[k].status = "pending"

\* C11: a job that clearQueue removed while it was still pending is never
\* attempted afterwards: no step emits print_started for it or sends it.
C11_ClearedJobNeverStarts ==
    [][ \A j \in JobIds :
            (~InQueue(j) /\ jobs[j].status = "pending") =>
                /\ ev'[j].started = ev[j].started
                /\ ev'[j].sendAttempts = ev[j].sendAttempts ]_vars

\* C16: at most one print_failed per job, print_failed only for a job marked
\* 'failed' with an error stored on it, and never both print_completed and
\* print_failed for the same job.
C16_OneTerminalEvent ==
    \A j \in JobIds :
        /\ ev[j].failed <= 1
        /\ ev[j].failed > 0 => (jobs[j].status = "failed" /\ jobs[j].error)
        /\ ~(ev[j].failed > 0 /\ ev[j].completed > 0)

\* C19: at most one of the three transport adapters holds an open session.
C19_OneOpenAdapter == Cardinality({k \in Profiles : adapterOpen[k]}) <= 1

\* The steps in which connect(profile) ends because the adapter's connect
\* rejected or the connection type is unsupported
ConnectRejected == ConnectUnsupported \/ \E c \in 1..Len(connects) : AdapterConnectFail(c)

\* C13: a connect that ends because the adapter rejected (or the type is
\* unsupported) leaves status 'error', a non-null lastError and no profile
\* reference, whatever the state before.
C13_RejectedConnectClearsProfile ==
    [][ ConnectRejected =>
            /\ status' = "error"
            /\ lastError'
            /\ connectedPrinter' = NoPrinter ]_vars

\* The steps in which a disconnect() call returns
DisconnectReturns ==
    \/ DisconnectNoProfile
    \/ DisconnectCall /\ disconnects' = disconnects
    \/ \E x \in 1..Len(disconnects) : DisconnectDone(x)

\* C14: when disconnect() returns after a call made in state connected,
\* printing or error, status is 'disconnected' and no profile is set.
C14_DisconnectEndsDisconnected ==
    [][ (DisconnectReturns /\ status \in {"connected", "printing", "error"}) =>
            /\ status' = "disconnected"
            /\ connectedPrinter' = NoPrinter ]_vars

\* ----------------------------------------------- jobs of any type
\* The orchestrator with jobs of every type submitted, including a type
\* outside PrintJobType, around one connect() that succeeds.
TypedNext ==
    \/ \E t \in JobTypes : AddPrintJob(t)
    \/ RetryTimer
    \/ \E d \in 1..Len(drains) : SendResolve(d)
    \/ \E d \in 1..Len(drains), drop \in BOOLEAN : SendReject(d, drop)
    \/ \E p \in Profiles : calls.connect = 0 /\ ConnectCall(p)
    \/ \E c \in 1..Len(connects) : AdapterConnectOk(c)
    \/ \E c \in 1..Len(connects) : StorageOk(c)

TypedSpec == Init /\ [][TypedNext]_vars

\* C15: a job of an unsupported type is attempted at most once, and once it
\* has been attempted it is 'failed' with its print_failed emitted; it is never
\* back to 'pending' after an attempt.
C15_UnsupportedFailsAtOnce ==
    \A j \in JobIds :
        jobs[j].type \notin SupportedJobTypes =>
            /\ ev[j].started <= 1
            /\ ev[j].started = 1 => (jobs[j].status = "failed" /\ ev[j].failed = 1)

\* ------------------------------------- jobs submitted before the connect
\* The orchestrator with every job submitted before the first connect() call.
OfflineNext ==
    \/ \E t \in UsualJobTypes : calls.connect = 0 /\ AddPrintJob(t)
    \/ RetryTimer
    \/ \E d \in 1..Len(drains) : SendResolve(d)
    \/ \E d \in 1..Len(drains), drop \in BOOLEAN : SendReject(d, drop)
    \/ ClearQueue
    \/ \E p \in Profiles : ConnectCall(p)
    \/ ConnectUnsupported
    \/ \E c \in 1..Len(connects) : AdapterConnectOk(c)
    \/ \E c \in 1..Len(connects) : AdapterConnectFail(c)
    \/ \E c \in 1..Len(connects) : StorageOk(c)
    \/ \E c \in 1..Len(connects) : StorageFail(c)
    \/ DisconnectCall
    \/ DisconnectNoProfile
    \/ \E x \in 1..Len(disconnects) : DisconnectDone(x)
    \/ NetClose

OfflineSpec == Init /\ [][OfflineNext]_vars

\* The case of C12: one connect() call, which has not failed, no send has
\* failed, no disconnect and no clearQueue.
C12_Case ==
    /\ calls.connect = 1
    /\ ~lastError
    /\ calls.disconnect = 0
    /\ calls.clear = 0
    /\ \A j \in JobIds : jobs[j].retryCount = 0

\* C12: jobs submitted while disconnected are drained by the connect in
\* submission order: each gets print_started at most once, only after every
\* earlier job got print_completed, and when the connect and its drain are
\* over every job has completed and the queue is empty.
C12_OfflineJobsDrainInOrder ==
    C12_Case =>
        /\ \A j \in JobIds :
               /\ ev[j].started <= 1
               /\ ev[j].completed <= ev[j].started
               /\ ev[j].failed = 0
        /\ \A a, b \in JobIds : (a < b /\ ev[b].started > 0) => ev[a].completed = 1
        /\ (connects = << >> /\ drains = << >> /\ status = "connected") =>
               /\ printQueue = << >>
               /\ \A j \in JobIds : ev[j].completed = 1 /\ jobs[j].status = "completed"

C12_Witness ==
    /\ C12_Case
    /\ Len(jobs) >= 2
    /\ connects = << >>
    /\ drains = << >>
    /\ status = "connected"
    /\ printQueue = << >>
    /\ \A j \in JobIds : ev[j].started = 1 /\ ev[j].completed = 1

\* ------------------------------------------------ a caller of getState()
\* getState(): the caller keeps the returned value
GetState ==
    /\ Quiescent
    /\ ~view.taken
    /\ view' = [taken |-> TRUE, shared |-> TRUE, queue |-> printQueue,
                queueAt |-> printQueue, jobsAt |-> jobs]
    /\ UNCHANGED << orch, listeners, apart >>

\* The orchestrator around one connect() that succeeds, with a caller that
\* keeps a value of getState().
ViewNext ==
    \/ GetState
    \/ \E t \in UsualJobTypes : AddPrintJob(t)
    \/ RetryTimer
    \/ \E d \in 1..Len(drains) : SendResolve(d)
    \/ \E d \in 1..Len(drains), drop \in BOOLEAN : SendReject(d, drop)
    \/ ClearQueue
    \/ \E p \in Profiles : calls.connect = 0 /\ ConnectCall(p)
    \/ \E c \in 1..Len(connects) : AdapterConnectOk(c)
    \/ \E c \in 1..Len(connects) : StorageOk(c)

ViewSpec == Init /\ [][ViewNext]_vars

\* C17: the printQueue and the job fields seen through a value returned by
\* getState() stay what they were when getState() returned.
C17_ViewIsSnapshot ==
    view.taken =>
        /\ view.queue = view.queueAt
        /\ \A i \in 1..Len(view.queueAt) :
               jobs[view.queueAt[i]] = view.jobsAt[view.queueAt[i]]

\* ------------------------------------------------------- subscribers
\* subscribe(callback), with a callback that throws on every event or never
Subscribe(th) ==
    /\ Quiescent
    /\ Len(listeners) < MaxListeners
    /\ listeners' = Append(listeners, [throws |-> th, got |-> 0, due |-> 0])
    /\ UNCHANGED << orch, view, apart >>

\* The function subscribe returned is called
Unsubscribe(i) ==
    /\ Quiescent
    /\ i \in 1..Len(listeners)
    /\ listeners' = RemoveAt(listeners, i)
    /\ UNCHANGED << orch, view, apart >>

\* The orchestrator around one connect() that succeeds, with subscribers
\* coming and going.
EmitNext ==
    \/ \E th \in BOOLEAN : Subscribe(th)
    \/ \E i \in 1..Len(listeners) : Unsubscribe(i)
    \/ \E t \in UsualJobTypes : AddPrintJob(t)
    \/ RetryTimer
    \/ \E d \in 1..Len(drains) : SendResolve(d)
    \/ \E d \in 1..Len(drains), drop \in BOOLEAN : SendReject(d, drop)
    \/ \E p \in Profiles : calls.connect = 0 /\ ConnectCall(p)
    \/ \E c \in 1..Len(connects) : AdapterConnectOk(c)
    \/ \E c \in 1..Len(connects) : StorageOk(c)

EmitSpec == Init /\ [][EmitNext]_vars

\* C18: whatever callbacks throw, every subscriber has received every
\* print_started emitted since it subscribed, and the job goes on as without
\* the throw: each print_started is followed by the call of sendToPrinter, and
\* a job's retryCount counts only attempts that reached sendToPrinter.
C18_ThrowingSubscriberIsIsolated ==
    /\ \A i \in 1..Len(listeners) : listeners[i].got = listeners[i].due
    /\ \A j \in JobIds :
           /\ ev[j].started = ev[j].sendAttempts
           /\ jobs[j].retryCount <= ev[j].sendAttempts

C18_Witness ==
    /\ Len(listeners) = 2
    /\ listeners[1].throws
    /\ listeners[1].got >= 1
    /\ ~listeners[2].throws
    /\ listeners[2].got >= 1
    /\ \E j \in JobIds :
          /\ jobs[j].status = "completed"
          /\ jobs[j].retryCount = 0
          /\ ev[j].started = 1

\* ------------------------------------------------- the network adapter
\* net.socks[s] is the TCP socket that the s-th createConnection returned:
\* "connecting", "open", "destroyed" (destroyed or failed, its close event
\* still to come) or "closed". net.timeouts holds the sockets whose
\* connection timeout is armed.
LiveSockets == {s \in 1..Len(net.socks) : net.socks[s] \in {"connecting", "open"}}

\* NetworkPrinter.disconnect applied to adapter record a
NetTeardown(a) ==
    [a EXCEPT !.socks = IF a.socket # NoSocket /\ a.socks[a.socket] \in {"connecting", "open"}
                        THEN [@ EXCEPT ![a.socket] = "destroyed"] ELSE @,
              !.socket = NoSocket,
              !.isConnected = FALSE]

\* NetworkPrinter.connect up to the return of its promise
NetConnect ==
    /\ Len(net.socks) < MaxSockets
    /\ LET s == Len(net.socks) + 1 IN
       net' = [net EXCEPT !.socks = Append(@, "connecting"),
                          !.socket = s,
                          !.timeouts = @ \cup {s}]
    /\ UNCHANGED << orch, view, listeners, bt, usb, store, enc, svc >>

\* The "connect" handler registered on socket s
NetSockConnect(s) ==
    /\ s \in 1..Len(net.socks)
    /\ net.socks[s] = "connecting"
    /\ net' = [net EXCEPT !.socks[s] = "open",
                          !.timeouts = @ \ {s},
                          !.isConnected = TRUE]
    /\ UNCHANGED << orch, view, listeners, bt, usb, store, enc, svc >>

\* The "error" handler registered on socket s
NetSockError(s) ==
    /\ s \in LiveSockets
    /\ net' = [net EXCEPT !.socks[s] = "destroyed",
                          !.timeouts = @ \ {s},
                          !.isConnected = FALSE]
    /\ UNCHANGED << orch, view, listeners, bt, usb, store, enc, svc >>

\* The "close" handler registered on socket s: the peer closed an open
\* socket, or the close event of a destroyed socket arrives
NetSockClose(s) ==
    /\ s \in 1..Len(net.socks)
    /\ net.socks[s] \in {"open", "destroyed"}
    /\ net' = [net EXCEPT !.socks[s] = "closed",
                          !.isConnected = FALSE]
    /\ UNCHANGED << orch, view, listeners, bt, usb, store, enc, svc >>

\* The connection timeout armed by the connect call that created socket s
NetTimeout(s) ==
    /\ s \in net.timeouts
    /\ net' = NetTeardown([net EXCEPT !.timeouts = @ \ {s}])
    /\ UNCHANGED << orch, view, listeners, bt, usb, store, enc, svc >>

\* NetworkPrinter.disconnect
NetDisconnect ==
    /\ net' = NetTeardown(net)
    /\ UNCHANGED << orch, view, listeners, bt, usb, store, enc, svc >>

\* sendRawData's guard "if (!this.socket || !this.isConnected) throw"
NetCanSend(a) == a.socket # NoSocket /\ a.isConnected

\* NetworkPrinter.sendRawData: the promise settles inside the call, by the
\* value socket.write returns or the exception it throws
NetSendRawData ==
    /\ Len(net.sent) < MaxSends
    /\ IF NetCanSend(net)
       THEN \E success \in BOOLEAN :
                net' = [net EXCEPT !.writes = @ + 1,
                                   !.sent = Append(@, IF success THEN "resolved"
                                                                 ELSE "rejected")]
       ELSE net' = [net EXCEPT !.sent = Append(@, "rejected")]
    /\ UNCHANGED << orch, view, listeners, bt, usb, store, enc, svc >>

NetNext ==
    \/ NetConnect
    \/ \E s \in 1..Len(net.socks) : NetSockConnect(s)
    \/ \E s \in 1..Len(net.socks) : NetSockError(s)
    \/ \E s \in 1..Len(net.socks) : NetSockClose(s)
    \/ \E s \in 1..Len(net.socks) : NetTimeout(s)
    \/ NetDisconnect
    \/ NetSendRawData

NetSpec == Init /\ [][NetNext]_vars

\* C20: the adapter never has two established sessions: at most one of the
\* sockets it created is open.
C20_OneSessionPerAdapter ==
    Cardinality({s \in 1..Len(net.socks) : net.socks[s] = "open"}) <= 1

\* C28: between macrotasks the queue holds only 'pending' and 'printing'
\* jobs (a job marked 'completed' or 'failed' left the queue in the same
\* macrotask), and a job that is out of the queue never re-enters it.
C28_QueueHoldsLiveJobs ==
    [][ /\ \A j \in 1..Len(jobs') :
               InQueue(j)' => jobs'[j].status \in {"pending", "printing"}
        /\ \A j \in JobIds : ~InQueue(j) => ~InQueue(j)' ]_vars

C28_Witness ==
    /\ \E j \in JobIds : jobs[j].status = "completed" /\ ~InQueue(j)
    /\ \E j \in JobIds : jobs[j].status = "failed" /\ ~InQueue(j)

\* ----------------------------------------------- the Bluetooth adapter
\* bt.ops[i] is the i-th call made on the adapter: kind "connect",
\* "disconnect" or "send"; at is the await the call is suspended at ("link":
\* BluetoothManager.connect, "init": printerInit, "teardown":
\* BluetoothManager.disconnect, "write": printText, "delay": the reconnect
\* delay, "relink" and "reinit": the connect made by attemptReconnect) or
\* "resolved" / "rejected" once it settled; tries counts the connect calls
\* attemptReconnect made for this send.
BtOps == 1..Len(bt.ops)

\* sendRawData passes its guard "if (!this.connectedDevice) throw"
BtCanSendAlways(a) == TRUE

BtCanSend(a) == a.connectedDevice

\* disconnect without its catch block
BtTeardownNoCatch(a, threw) ==
    IF threw THEN a ELSE [a EXCEPT !.connectedDevice = FALSE]

\* disconnect after BluetoothManager.disconnect settled: both the try and
\* the catch branch clear the device
BtAfterTeardown(a, threw) == [a EXCEPT !.connectedDevice = FALSE]

\* attemptReconnect's catch block: it clears the device and rethrows once
\* the counter reached the maximum, and swallows the error otherwise;
\* sendRawData rejects either way
BtReconnectFailed(a, i) ==
    [a EXCEPT !.connectedDevice = IF a.reconnectAttempts >= maxReconnectAttempts
                                  THEN FALSE ELSE @,
              !.ops[i].at = "rejected"]

\* connect's catch block, for a call of the user and for the call made by
\* attemptReconnect
BtConnectFailed(a, i) ==
    LET a1 == [a EXCEPT !.connectedDevice = FALSE] IN
    IF a.ops[i].kind = "send" THEN BtReconnectFailed(a1, i)
    ELSE [a1 EXCEPT !.ops[i].at = "rejected"]

\* BluetoothPrinter.connect up to its first await
BtConnect ==
    /\ Len(bt.ops) < MaxBtCalls
    /\ bt' = [bt EXCEPT !.ops = Append(@, [kind |-> "connect", at |-> "link", tries |-> 0])]
    /\ UNCHANGED << orch, view, listeners, net, usb, store, enc, svc >>

\* BluetoothManager.connect resolved
BtLinkOk(i) ==
    /\ i \in BtOps
    /\ bt.ops[i].at \in {"link", "relink"}
    /\ bt' = [bt EXCEPT !.connectedDevice = TRUE,
                        !.reconnectAttempts = 0,
                        !.ops[i].at = IF @ = "link" THEN "init" ELSE "reinit"]
    /\ UNCHANGED << orch, view, listeners, net, usb, store, enc, svc >>

\* BluetoothManager.connect rejected
BtLinkFail(i) ==
    /\ i \in BtOps
    /\ bt.ops[i].at \in {"link", "relink"}
    /\ bt' = BtConnectFailed(bt, i)
    /\ UNCHANGED << orch, view, listeners, net, usb, store, enc, svc >>

\* printerInit resolved: connect returns true; attemptReconnect then resets
\* the counter and sendRawData throws "Connection lost, please try again"
BtInitOk(i) ==
    /\ i \in BtOps
    /\ bt.ops[i].at \in {"init", "reinit"}
    /\ bt' = IF bt.ops[i].at = "init"
             THEN [bt EXCEPT !.ops[i].at = "resolved"]
             ELSE [bt EXCEPT !.reconnectAttempts = 0, !.ops[i].at = "rejected"]
    /\ UNCHANGED << orch, view, listeners, net, usb, store, enc, svc >>

\* printerInit rejected
BtInitFail(i) ==
    /\ i \in BtOps
    /\ bt.ops[i].at \in {"init", "reinit"}
    /\ bt' = BtConnectFailed(bt, i)
    /\ UNCHANGED << orch, view, listeners, net, usb, store, enc, svc >>

\* BluetoothPrinter.disconnect up to its await
BtDisconnect ==
    /\ Len(bt.ops) < MaxBtCalls
    /\ bt' = [bt EXCEPT !.ops = Append(@, [kind |-> "disconnect",
                                           at |-> IF bt.connectedDevice THEN "teardown"
                                                                        ELSE "resolved",
                                           tries |-> 0])]
    /\ UNCHANGED << orch, view, listeners, net, usb, store, enc, svc >>

\* BluetoothManager.disconnect resolved or rejected
BtTeardownDone(i) ==
    /\ i \in BtOps
    /\ bt.ops[i].at = "teardown"
    /\ \E threw \in BOOLEAN :
           bt' = [BtAfterTeardown(bt, threw) EXCEPT !.ops[i].at = "resolved"]
    /\ UNCHANGED << orch, view, listeners, net, usb, store, enc, svc >>

\* BluetoothPrinter.sendRawData up to the await of printText
BtSendRawData ==
    /\ Len(bt.ops) < MaxBtCalls
    /\ bt' = IF BtCanSend(bt)
             THEN [bt EXCEPT !.writes = @ + 1,
                             !.ops = Append(@, [kind |-> "send", at |-> "write", tries |-> 0])]
             ELSE [bt EXCEPT !.ops = Append(@, [kind |-> "send", at |-> "rejected", tries |-> 0])]
    /\ UNCHANGED << orch, view, listeners, net, usb, store, enc, svc >>

\* printText resolved
BtWriteOk(i) ==
    /\ i \in BtOps
    /\ bt.ops[i].at = "write"
    /\ bt' = [bt EXCEPT !.ops[i].at = "resolved"]
    /\ UNCHANGED << orch, view, listeners, net, usb, store, enc, svc >>

\* printText rejected: sendRawData's catch block and attemptReconnect up to
\* its delay
BtWriteFail(i) ==
    /\ i \in BtOps
    /\ bt.ops[i].at = "write"
    /\ bt' = IF bt.reconnectAttempts < maxReconnectAttempts /\ bt.connectedDevice
             THEN [bt EXCEPT !.reconnectAttempts = @ + 1, !.ops[i].at = "delay"]
             ELSE [bt EXCEPT !.ops[i].at = "rejected"]
    /\ UNCHANGED << orch, view, listeners, net, usb, store, enc, svc >>

\* The reconnect delay elapsed: attemptReconnect calls connect with the
\* address of the device; with the device cleared meanwhile the read of its
\* address throws inside the try block
BtReconnectDelay(i) ==
    /\ i \in BtOps
    /\ bt.ops[i].at = "delay"
    /\ bt' = IF bt.connectedDevice
             THEN [bt EXCEPT !.ops[i].at = "relink", !.ops[i].tries = @ + 1]
             ELSE BtReconnectFailed(bt, i)
    /\ UNCHANGED << orch, view, listeners, net, usb, store, enc, svc >>

BtNext ==
    \/ BtConnect
    \/ \E i \in BtOps : BtLinkOk(i)
    \/ \E i \in BtOps : BtLinkFail(i)
    \/ \E i \in BtOps : BtInitOk(i)
    \/ \E i \in BtOps : BtInitFail(i)
    \/ BtDisconnect
    \/ \E i \in BtOps : BtTeardownDone(i)
    \/ BtSendRawData
    \/ \E i \in BtOps : BtWriteOk(i)
    \/ \E i \in BtOps : BtWriteFail(i)
    \/ \E i \in BtOps : BtReconnectDelay(i)

BtSpec == Init /\ [][BtNext]_vars

\* ----------------------------------------------------- the USB adapter
\* usb.ops[i] is the i-th call made on the adapter, suspended at "open"
\* (USBSerial.open), "close" (USBSerial.close) or "write"
\* (USBSerial.writeBase64), or settled as "resolved" / "rejected".
UsbOps == 1..Len(usb.ops)

\* sendRawData's guard "if (!this.isConnected) throw"
UsbCanSend(a) == a.isConnected

\* disconnect after USBSerial.close settled: both branches clear the device
UsbAfterTeardown(a, threw) == [a EXCEPT !.isConnected = FALSE]

\* USBPrinter.connect up to the await of USBSerial.open
UsbConnect ==
    /\ Len(usb.ops) < MaxUsbCalls
    /\ usb' = [usb EXCEPT !.ops = Append(@, [kind |-> "connect", at |-> "open"])]
    /\ UNCHANGED << orch, view, listeners, net, bt, store, enc, svc >>

\* USBSerial.open resolved
UsbOpenOk(i) ==
    /\ i \in UsbOps
    /\ usb.ops[i].at = "open"
    /\ usb' = [usb EXCEPT !.isConnected = TRUE, !.ops[i].at = "resolved"]
    /\ UNCHANGED << orch, view, listeners, net, bt, store, enc, svc >>

\* USBSerial.open rejected
UsbOpenFail(i) ==
    /\ i \in UsbOps
    /\ usb.ops[i].at = "open"
    /\ usb' = [usb EXCEPT !.isConnected = FALSE, !.ops[i].at = "rejected"]
    /\ UNCHANGED << orch, view, listeners, net, bt, store, enc, svc >>

\* USBPrinter.disconnect up to its await
UsbDisconnect ==
    /\ Len(usb.ops) < MaxUsbCalls
    /\ usb' = [usb EXCEPT !.ops = Append(@, [kind |-> "disconnect",
                                             at |-> IF usb.isConnected THEN "close"
                                                                       ELSE "resolved"])]
    /\ UNCHANGED << orch, view, listeners, net, bt, store, enc, svc >>

\* USBSerial.close resolved or rejected
UsbCloseDone(i) ==
    /\ i \in UsbOps
    /\ usb.ops[i].at = "close"
    /\ \E threw \in BOOLEAN :
           usb' = [UsbAfterTeardown(usb, threw) EXCEPT !.ops[i].at = "resolved"]
    /\ UNCHANGED << orch, view, listeners, net, bt, store, enc, svc >>

\* USBPrinter.sendRawData up to the await of writeBase64
UsbSendRawData ==
    /\ Len(usb.ops) < MaxUsbCalls
    /\ usb' = IF UsbCanSend(usb)
              THEN [usb EXCEPT !.writes = @ + 1,
                               !.ops = Append(@, [kind |-> "send", at |-> "write"])]
              ELSE [usb EXCEPT !.ops = Append(@, [kind |-> "send", at |-> "rejected"])]
    /\ UNCHANGED << orch, view, listeners, net, bt, store, enc, svc >>

\* USBSerial.writeBase64 resolved (ok) or rejected
UsbWriteDone(i, ok) ==
    /\ i \in UsbOps
    /\ usb.ops[i].at = "write"
    /\ usb' = [usb EXCEPT !.ops[i].at = IF ok THEN "resolved" ELSE "rejected"]
    /\ UNCHANGED << orch, view, listeners, net, bt, store, enc, svc >>

\* ------------------------------------------------ the three adapters
\* The adapters are separate singletons that share no field: a behaviour of
\* AdapterSpec drives one of them and leaves the other two as constructed.
OnlyNet == bt = BtInit /\ usb = UsbInit
OnlyBt == net = NetInit /\ usb = UsbInit
OnlyUsb == net = NetInit /\ bt = BtInit

AdapterNext ==
    \/ OnlyNet /\ NetConnect
    \/ \E s \in 1..Len(net.socks) : NetSockConnect(s)
    \/ \E s \in 1..Len(net.socks) : NetSockError(s)
    \/ \E s \in 1..Len(net.socks) : NetSockClose(s)
    \/ \E s \in 1..Len(net.socks) : NetTimeout(s)
    \/ OnlyNet /\ NetDisconnect
    \/ OnlyNet /\ NetSendRawData
    \/ OnlyBt /\ BtConnect
    \/ \E i \in BtOps : BtLinkOk(i)
    \/ \E i \in BtOps : BtLinkFail(i)
    \/ \E i \in BtOps : BtInitOk(i)
    \/ \E i \in BtOps : BtInitFail(i)
    \/ OnlyBt /\ BtDisconnect
    \/ \E i \in BtOps : BtTeardownDone(i)
    \/ OnlyBt /\ BtSendRawData
    \/ \E i \in BtOps : BtWriteOk(i)
    \/ \E i \in BtOps : BtWriteFail(i)
    \/ \E i \in BtOps : BtReconnectDelay(i)
    \/ OnlyUsb /\ UsbConnect
    \/ \E i \in UsbOps : UsbOpenOk(i)
    \/ \E i \in UsbOps : UsbOpenFail(i)
    \/ OnlyUsb /\ UsbDisconnect
    \/ \E i \in UsbOps : UsbCloseDone(i)
    \/ OnlyUsb /\ UsbSendRawData
    \/ \E i \in UsbOps, ok \in BOOLEAN : UsbWriteDone(i, ok)

AdapterSpec == Init /\ [][AdapterNext]_vars

\* The adapter holds no session: it does not report connected and the socket
\* it refers to, if any, is neither connecting nor open
NetNotConnected(a) ==
    /\ ~a.isConnected
    /\ a.socket # NoSocket => a.socks[a.socket] \notin {"connecting", "open"}

\* C21: disconnect() of each adapter never rejects and leaves the adapter not
\* connected, also when the teardown of the transport throws; on an adapter
\* that is not connected it changes nothing, so that a second call after the
\* first does what one call does.
C21_DisconnectIsSafe ==
    [][ /\ \A i \in 1..Len(bt'.ops) :
               bt'.ops[i].kind = "disconnect" => bt'.ops[i].at # "rejected"
        /\ \A i \in BtOps : BtTeardownDone(i) => ~bt'.connectedDevice
        /\ (BtDisconnect /\ ~bt.connectedDevice) =>
               /\ bt'.ops[Len(bt'.ops)].at = "resolved"
               /\ ~bt'.connectedDevice
               /\ bt'.reconnectAttempts = bt.reconnectAttempts
               /\ bt'.writes = bt.writes
        /\ \A i \in 1..Len(usb'.ops) :
               usb'.ops[i].kind = "disconnect" => usb'.ops[i].at # "rejected"
        /\ \A i \in UsbOps : UsbCloseDone(i) => ~usb'.isConnected
        /\ (UsbDisconnect /\ ~usb.isConnected) =>
               /\ usb'.ops[Len(usb'.ops)].at = "resolved"
               /\ ~usb'.isConnected
               /\ usb'.writes = usb.writes
        /\ NetDisconnect =>
               /\ ~net'.isConnected /\ net'.socket = NoSocket
               /\ NetTeardown(net') = net'
        /\ (NetDisconnect /\ NetNotConnected(net)) =>
               /\ net'.socks = net.socks
               /\ net'.writes = net.writes
               /\ net'.sent = net.sent ]_vars

\* A Bluetooth session was set up, torn down by one disconnect whose
\* teardown settled, and a second disconnect returned
C21_Witness ==
    /\ Len(bt.ops) = 3
    /\ bt.ops[1] = [kind |-> "connect", at |-> "resolved", tries |-> 0]
    /\ bt.ops[2] = [kind |-> "disconnect", at |-> "resolved", tries |-> 0]
    /\ bt.ops[3] = [kind |-> "disconnect", at |-> "resolved", tries |-> 0]
    /\ ~bt.connectedDevice

\* C22: sendRawData on an adapter that is not connected rejects, writes
\* nothing to the transport, starts no reconnect and leaves the connection
\* state as it was.
C22_SendNeedsConnection ==
    [][ /\ (BtSendRawData /\ ~bt.connectedDevice) =>
               /\ bt'.ops[Len(bt'.ops)].at = "rejected"
               /\ bt'.writes = bt.writes
               /\ bt'.reconnectAttempts = bt.reconnectAttempts
               /\ ~bt'.connectedDevice
        /\ (UsbSendRawData /\ ~usb.isConnected) =>
               /\ usb'.ops[Len(usb'.ops)].at = "rejected"
               /\ usb'.writes = usb.writes
               /\ ~usb'.isConnected
        /\ (NetSendRawData /\ ~net.isConnected) =>
               /\ net'.sent[Len(net'.sent)] = "rejected"
               /\ net'.writes = net.writes
               /\ ~net'.isConnected
               /\ net'.socket = net.socket
               /\ net'.socks = net.socks ]_vars

\* A send was refused on a Bluetooth adapter whose session had been set up
\* and torn down, and nothing was ever written
C22_Witness ==
    /\ Len(bt.ops) = 3
    /\ bt.ops[1] = [kind |-> "connect", at |-> "resolved", tries |-> 0]
    /\ bt.ops[2] = [kind |-> "disconnect", at |-> "resolved", tries |-> 0]
    /\ bt.ops[3] = [kind |-> "send", at |-> "rejected", tries |-> 0]
    /\ bt.writes = 0

\* C23: when a send failed on an established session and the reconnect made
\* for it fails too, the failure reaches the caller of sendRawData only after
\* 3 reconnect attempts were made for that call.
C23_ThreeAttemptsBeforeFailure ==
    [][ \A i \in BtOps :
            (bt.ops[i].kind = "send" /\ (BtLinkFail(i) \/ BtInitFail(i)))
                => bt.ops[i].tries = maxReconnectAttempts ]_vars

\* C24: a failed reconnect attempt clears the session only when the counter
\* of attempts reached 3, and the counter never exceeds 3.
C24_SessionKeptUntilExhausted ==
    [][ /\ \A i \in BtOps :
               (/\ bt.ops[i].kind = "send"
                /\ BtLinkFail(i) \/ BtInitFail(i)
                /\ bt.connectedDevice
                /\ bt.reconnectAttempts < maxReconnectAttempts)
                   => bt'.connectedDevice
        /\ bt'.reconnectAttempts <= maxReconnectAttempts ]_vars

\* C25: when the connection timeout of a connect call fires, the socket that
\* call created is destroyed and the adapter is left not connected, holding
\* no socket.
C25_TimeoutTearsDownItsSocket ==
    [][ \A s \in 1..Len(net.socks) :
            NetTimeout(s) => /\ net'.socks[s] \notin {"connecting", "open"}
                             /\ net'.socket = NoSocket
                             /\ ~net'.isConnected ]_vars

\* ------------------------------------------------- the printer store
\* A stored PrinterConfig is [id, isDefault, lastConnected]; lastConnected
\* tells whether a timestamp is set. Each AsyncStorage call of a method can
\* fail: the BOOLEAN parameters of the operators below give, in the order of
\* the calls, whether each one succeeds.
PrinterIds == {<< "p1", "p2", "p3", "p4" >>[n] : n \in 1..MaxPrinters}

PrinterConfigs ==
    [id : PrinterIds, isDefault : BOOLEAN, lastConnected : {FALSE}]

\* The indices of the stored profiles whose isDefault is true
Defaults(st) == {i \in 1..Len(st.printers) : st.printers[i].isDefault}

\* printers.findIndex((p) => p.id === id), 0 for -1
FindIndex(ps, id) ==
    IF \E i \in 1..Len(ps) : ps[i].id = id
    THEN CHOOSE i \in 1..Len(ps) : ps[i].id = id /\ \A k \in 1..(i - 1) : ps[k].id # id
    ELSE 0

\* The catch blocks that rethrow
Rejected(st) == [st EXCEPT !.ok = FALSE, !.failed = TRUE]

\* getAllPrinters: a failed read is logged and gives the empty list
GetAllPrinters(st, readOk) == IF readOk THEN st.printers ELSE << >>

\* getDefaultPrinterId: a failed read is logged and gives null
GetDefaultPrinterId(st, readOk) == IF readOk THEN st.defaultId ELSE NoPrinter

\* setDefaultPrinter
SetDefaultPrinter(st, printerId, readOk, writeOk, writeIdOk) ==
    LET printers == GetAllPrinters(st, readOk)
        updated == [i \in 1..Len(printers) |->
                        [printers[i] EXCEPT !.isDefault = (printers[i].id = printerId)]]
    IN  IF ~writeOk THEN Rejected(st)
        ELSE IF ~writeIdOk THEN Rejected([st EXCEPT !.printers = updated])
        ELSE [st EXCEPT !.printers = updated, !.defaultId = printerId]

\* savePrinter without the call of setDefaultPrinter
SavePrinterListOnly(st, printer, readOk, writeOk, read2Ok, write2Ok, writeIdOk) ==
    LET printers == GetAllPrinters(st, readOk)
        existingIndex == FindIndex(printers, printer.id)
    IN  IF ~writeOk THEN Rejected(st)
        ELSE [st EXCEPT !.printers = IF existingIndex > 0
                                     THEN [printers EXCEPT ![existingIndex] = printer]
                                     ELSE Append(printers, printer)]

\* savePrinter
SavePrinter(st, printer, readOk, writeOk, read2Ok, write2Ok, writeIdOk) ==
    LET printers == GetAllPrinters(st, readOk)
        existingIndex == FindIndex(printers, printer.id)
        saved == [st EXCEPT !.printers = IF existingIndex > 0
                                         THEN [printers EXCEPT ![existingIndex] = printer]
                                         ELSE Append(printers, printer)]
    IN  IF ~writeOk THEN Rejected(st)
        ELSE IF printer.isDefault
             THEN SetDefaultPrinter(saved, printer.id, read2Ok, write2Ok, writeIdOk)
             ELSE saved

\* deletePrinter
DeletePrinter(st, id, readOk, writeOk, readIdOk, removeOk) ==
    LET filtered == SelectSeq(GetAllPrinters(st, readOk), LAMBDA p : p.id # id)
        deleted == [st EXCEPT !.printers = filtered]
    IN  IF ~writeOk THEN Rejected(st)
        ELSE IF GetDefaultPrinterId(st, readIdOk) = id
             THEN IF removeOk THEN [deleted EXCEPT !.defaultId = NoPrinter]
                              ELSE Rejected(deleted)
             ELSE deleted

\* updateLastConnected
UpdateLastConnected(st, printerId, findOk, readOk, writeOk, read2Ok, write2Ok, writeIdOk) ==
    LET printers == GetAllPrinters(st, findOk)
        i == FindIndex(printers, printerId)
    IN  IF i > 0
        THEN SavePrinter(st, [printers[i] EXCEPT !.lastConnected = TRUE],
                         readOk, writeOk, read2Ok, write2Ok, writeIdOk)
        ELSE st

\* A call of name on the store: ok is set anew, failed is kept
Called(name) == [store EXCEPT !.ok = TRUE, !.last = name]

StoreSavePrinter(printer) ==
    /\ \E readOk, writeOk, read2Ok, write2Ok, writeIdOk \in BOOLEAN :
           store' = SavePrinter(Called("savePrinter"), printer,
                                readOk, writeOk, read2Ok, write2Ok, writeIdOk)
    /\ UNCHANGED << orch, view, listeners, net, bt, usb, enc, svc >>

StoreDeletePrinter(id) ==
    /\ \E readOk, writeOk, readIdOk, removeOk \in BOOLEAN :
           store' = DeletePrinter(Called("deletePrinter"), id,
                                  readOk, writeOk, readIdOk, removeOk)
    /\ UNCHANGED << orch, view, listeners, net, bt, usb, enc, svc >>

StoreSetDefaultPrinter(id) ==
    /\ \E readOk, writeOk, writeIdOk \in BOOLEAN :
           store' = SetDefaultPrinter(Called("setDefaultPrinter"), id,
                                      readOk, writeOk, writeIdOk)
    /\ UNCHANGED << orch, view, listeners, net, bt, usb, enc, svc >>

StoreUpdateLastConnected(id) ==
    /\ \E findOk, readOk, writeOk, read2Ok, write2Ok, writeIdOk \in BOOLEAN :
           store' = UpdateLastConnected(Called("updateLastConnected"), id, findOk,
                                        readOk, writeOk, read2Ok, write2Ok, writeIdOk)
    /\ UNCHANGED << orch, view, listeners, net, bt, usb, enc, svc >>

\* getDefaultPrinter: the stored profile whose id is under DEFAULT_PRINTER,
\* as a set (empty for null)
GetDefaultPrinter(st, readIdOk, readOk) ==
    LET id == GetDefaultPrinterId(st, readIdOk)
        printers == GetAllPrinters(st, readOk)
        i == FindIndex(printers, id)
    IN  IF id = NoPrinter \/ i = 0 THEN {} ELSE {printers[i]}

\* PrinterStorageService, called one call after the other. The saves of a
\* PrinterService.connect(config) whose adapter connect resolved true are
\* updateLastConnected(config.id) followed by savePrinter(config).
StoreNext ==
    \/ \E printer \in PrinterConfigs : StoreSavePrinter(printer)
    \/ \E id \in PrinterIds : StoreDeletePrinter(id)
    \/ \E id \in PrinterIds : StoreSetDefaultPrinter(id)
    \/ \E id \in PrinterIds : StoreUpdateLastConnected(id)

StoreSpec == Init /\ [][StoreNext]_vars

\* C26: after a setDefaultPrinter(id) that resolved, the stored list holds
\* exactly one profile with isDefault = true, and its id is id.
C26_SetDefaultGivesOneDefault ==
    [][ \A id \in PrinterIds :
            (StoreSetDefaultPrinter(id) /\ store'.ok)
                => /\ Cardinality(Defaults(store')) = 1
                   /\ \A i \in Defaults(store') : store'.printers[i].id = id ]_vars

PaperWidths == {58, 80}

\* PAPER_CONFIG[paperWidth].charsPerLine
CharsPerLine(paperWidth) == IF paperWidth = 58 THEN 32 ELSE 48

\* The characters of the texts laid out: one that UTF-8 encodes in one byte
\* and one that it encodes in two
TextChars == {"a", "é"}

\* c.repeat(n) for n >= 0
Repeat(c, n) == [i \in 1..n |-> c]

\* The texts of at most n characters
Texts(n) == {Repeat(c, k) : c \in TextChars, k \in 0..n}

Max(a, b) == IF a >= b THEN a ELSE b

Digits == << "0", "1", "2", "3", "4", "5", "6", "7", "8", "9" >>

\* The UTF-8 bytes of one character of the texts encoded here
CharCode(c) ==
    IF c = "a" THEN << 97 >>
    ELSE IF c = " " THEN << 32 >>
    ELSE IF c = "x" THEN << 120 >>
    ELSE IF c = "." THEN << 46 >>
    ELSE IF \E d \in 1..10 : Digits[d] = c
         THEN << 47 + (CHOOSE d \in 1..10 : Digits[d] = c) >>
    ELSE << 195, 169 >>

\* new TextEncoder().encode(content): the bytes of the characters in order
\* (computed by halves, to keep the evaluation shallow for long texts)
RECURSIVE Encode(_)
Encode(content) ==
    IF content = << >> THEN << >>
    ELSE IF Len(content) = 1 THEN CharCode(content[1])
    ELSE LET half == Len(content) \div 2
         IN  Encode(SubSeq(content, 1, half)) \o Encode(SubSeq(content, half + 1, Len(content)))

\* new ESCPOSEncoder(paperWidth): the buffer holds COMMANDS.INIT
NewEncoder(paperWidth) ==
    [EncInit EXCEPT !.paperWidth = paperWidth, !.buffer = << 27, 64 >>]

\* line(content): text(content), then LF
Line(e, content) ==
    [e EXCEPT !.line = content, !.lines = Append(@, content),
              !.buffer = @ \o Encode(content) \o << 10 >>]

\* twoColumn without Math.max(..., 1)
TwoColumnNoGap(e, left, right) ==
    LET space == CharsPerLine(e.paperWidth) - Len(left) - Len(right)
    IN  Line(e, left \o Repeat(" ", space) \o right)

\* twoColumn
TwoColumn(e, left, right) ==
    LET space == Max(CharsPerLine(e.paperWidth) - Len(left) - Len(right), 1)
    IN  Line(e, left \o Repeat(" ", space) \o right)

\* threeColumn with the larger half of the remainder put first
ThreeColumnCeilFirst(e, left, center, right) ==
    LET remainingSpace == CharsPerLine(e.paperWidth) - (Len(left) + Len(center) + Len(right))
        rightSpace == remainingSpace \div 2
        leftSpace == remainingSpace - rightSpace
    IN  IF leftSpace < 0 \/ rightSpace < 0
        THEN [e EXCEPT !.threw = TRUE]
        ELSE Line(e, left \o Repeat(" ", leftSpace) \o center \o Repeat(" ", rightSpace) \o right)

\* threeColumn: " ".repeat(n) throws a RangeError for n < 0
ThreeColumn(e, left, center, right) ==
    LET totalLen == Len(left) + Len(center) + Len(right)
        remainingSpace == CharsPerLine(e.paperWidth) - totalLen
        leftSpace == remainingSpace \div 2
        rightSpace == remainingSpace - leftSpace
    IN  IF leftSpace < 0 \/ rightSpace < 0
        THEN [e EXCEPT !.threw = TRUE]
        ELSE Line(e, left \o Repeat(" ", leftSpace) \o center \o Repeat(" ", rightSpace) \o right)

\* new ESCPOSEncoder(paperWidth).twoColumn(left, right). Every layout call
\* is made on an encoder of its own: a behaviour of EncSpec makes one.
EncTwoColumn ==
    /\ enc = EncInit
    /\ \E paperWidth \in PaperWidths, left, right \in Texts(MaxText) :
           enc' = [TwoColumn(NewEncoder(paperWidth), left, right)
                       EXCEPT !.call = "twoColumn", !.args = << left, right >>]
    /\ UNCHANGED << orch, view, listeners, net, bt, usb, store, svc >>

\* new ESCPOSEncoder(paperWidth).threeColumn(left, center, right)
EncThreeColumn ==
    /\ enc = EncInit
    /\ \E paperWidth \in PaperWidths, left, center, right \in Texts(MaxText3) :
           enc' = [ThreeColumn(NewEncoder(paperWidth), left, center, right)
                       EXCEPT !.call = "threeColumn", !.args = << left, center, right >>]
    /\ UNCHANGED << orch, view, listeners, net, bt, usb, store, svc >>

\* centerText
CenterText(e, content) ==
    LET padding == Max(0, (CharsPerLine(e.paperWidth) - Len(content)) \div 2)
    IN  Line(e, Repeat(" ", padding) \o content)

\* content.split(" ")
RECURSIVE Split(_)
Split(content) ==
    IF \A i \in 1..Len(content) : content[i] # " " THEN << content >>
    ELSE LET i == CHOOSE k \in 1..Len(content) :
                      content[k] = " " /\ \A m \in 1..(k - 1) : content[m] # " "
         IN  << SubSeq(content, 1, i - 1) >> \o Split(SubSeq(content, i + 1, Len(content)))

\* parts.join(separator)
RECURSIVE Join(_, _)
Join(parts, separator) ==
    IF parts = << >> THEN << >>
    ELSE IF Len(parts) = 1 THEN parts[1]
    ELSE parts[1] \o separator \o Join(Tail(parts), separator)

\* content.trim(), for texts whose only white space is the space
RECURSIVE Trim(_)
Trim(content) ==
    IF content = << >> THEN content
    ELSE IF Head(content) = " " THEN Trim(Tail(content))
    ELSE IF content[Len(content)] = " " THEN Trim(SubSeq(content, 1, Len(content) - 1))
    ELSE content

\* The trial test of wrap made with < in place of <=
FitsStrict(e, trial) == Len(trial) < CharsPerLine(e.paperWidth)

\* The trial test of wrap: (currentLine + " " + word).trim().length <= charsPerLine
Fits(e, trial) == Len(trial) <= CharsPerLine(e.paperWidth)

\* The loop of wrap over the words left, and the flush after it
RECURSIVE WrapLoop(_, _, _)
WrapLoop(e, words, currentLine) ==
    IF words = << >>
    THEN IF currentLine # << >> THEN Line(e, currentLine) ELSE e
    ELSE LET word == Head(words)
             trial == Trim(currentLine \o << " " >> \o word)
         IN  IF Fits(e, trial)
             THEN WrapLoop(e, Tail(words), trial)
             ELSE WrapLoop(IF currentLine # << >> THEN Line(e, currentLine) ELSE e,
                           Tail(words), word)

\* wrap
Wrap(e, content) == WrapLoop(e, Split(content), << >>)

\* The word lengths of the texts wrapped: none (two spaces in a row, or a
\* space at either end), short, halves of the 58 mm budget and around them,
\* and longer than each budget
WordLens == {0, 1, 15, 16, 17, 33, 49}

Words == {Repeat(c, k) : c \in TextChars, k \in WordLens}

\* The texts of 1 to n words with one space between them
WrapTexts(n) == {Join(ws, << " " >>) : ws \in UNION {[1..k -> Words] : k \in 1..n}}

\* new ESCPOSEncoder(paperWidth).centerText(content)
EncCenterText ==
    /\ enc = EncInit
    /\ \E paperWidth \in PaperWidths, content \in Texts(MaxText) :
           enc' = [CenterText(NewEncoder(paperWidth), content)
                       EXCEPT !.call = "centerText", !.args = << content >>]
    /\ UNCHANGED << orch, view, listeners, net, bt, usb, store, svc >>

\* new ESCPOSEncoder(paperWidth).wrap(content)
EncWrap ==
    /\ enc = EncInit
    /\ \E paperWidth \in PaperWidths, content \in WrapTexts(MaxWords) :
           enc' = [Wrap(NewEncoder(paperWidth), content)
                       EXCEPT !.call = "wrap", !.args = << content >>]
    /\ UNCHANGED << orch, view, listeners, net, bt, usb, store, svc >>

QTY_WIDTH == 5
TOTAL_WIDTH == 10

\* String(n) for an integer n >= 0
RECURSIVE Str(_)
Str(n) == IF n < 10 THEN << Digits[n + 1] >> ELSE Str(n \div 10) \o << Digits[(n % 10) + 1] >>

\* content.padEnd(n), content.padStart(n), content.slice(0, n) for n >= 0
PadEnd(content, n) == content \o Repeat(" ", n - Len(content))
PadStart(content, n) == Repeat(" ", n - Len(content)) \o content
Slice(content, n) == SubSeq(content, 1, IF Len(content) < n THEN Len(content) ELSE n)

\* Math.round of a non-negative amount given in hundredths
Round(hundredths) == (hundredths + 50) \div 100

\* The second line of an item: item.details, when not empty
DetailsLine(e, item) ==
    IF item.details # << >>
    THEN Line(e, Repeat(" ", 5) \o Slice(item.details, CharsPerLine(e.paperWidth) - 5))
    ELSE e

\* generateKOT: the lines written for one item of data.items
KOTItem(e, item) ==
    LET WIDTH == IF e.paperWidth = 58 THEN 32 ELSE 48
        ITEM_WIDTH == WIDTH - QTY_WIDTH - 2
        qty == PadEnd(Str(item.quantity) \o << "x" >>, QTY_WIDTH)
        name == Slice(item.productName, ITEM_WIDTH)
    IN  DetailsLine(Line(e, qty \o name), item)

\* generateInvoice: the lines written for one item of data.items
InvoiceItem(e, item) ==
    LET WIDTH == IF e.paperWidth = 58 THEN 32 ELSE 48
        ITEM_WIDTH == WIDTH - QTY_WIDTH - TOTAL_WIDTH
        qty == PadEnd(Str(item.quantity) \o << "x" >>, QTY_WIDTH)
        name == Slice(item.productName, ITEM_WIDTH - 2)
        total == PadStart(Str(Round(item.subtotal)), TOTAL_WIDTH - 2)
    IN  DetailsLine(Line(e, qty \o PadEnd(name, ITEM_WIDTH - 1) \o << ".", "." >> \o total), item)

\* The items printed: quantities of 1, 2 and 5 digits, names of 0 to MaxText
\* characters, no details or details longer than a line, subtotals (in
\* hundredths) that round down, round up and fill the 8 characters of the total
Items ==
    [quantity : {1, 12, 12345}, productName : Texts(MaxText),
     details : {<< >>, Repeat("a", MaxText)}, subtotal : {0, 1049, 1050, 2000000000}]

\* generateKOT(data, paperWidth), for one item of data.items: the item rows
\* of the ticket. The header and footer lines of the ticket do not depend
\* on the items and are left out.
EncKOTItem ==
    /\ enc = EncInit
    /\ \E paperWidth \in PaperWidths, item \in Items :
           enc' = [KOTItem(NewEncoder(paperWidth), item)
                       EXCEPT !.call = "kotItem", !.args = << item >>]
    /\ UNCHANGED << orch, view, listeners, net, bt, usb, store, svc >>

\* generateInvoice(data, paperWidth), for one item of data.items
EncInvoiceItem ==
    /\ enc = EncInit
    /\ \E paperWidth \in PaperWidths, item \in Items :
           enc' = [InvoiceItem(NewEncoder(paperWidth), item)
                       EXCEPT !.call = "invoiceItem", !.args = << item >>]
    /\ UNCHANGED << orch, view, listeners, net, bt, usb, store, svc >>

\* printBarcode: the command is built in a Uint8Array, which keeps each
\* element modulo 256
PrintBarcode(e, data) ==
    LET barcodeData == Encode(data)
        cmd == << 29, 107, 73, Len(barcodeData) % 256 >> \o barcodeData
    IN  [e EXCEPT !.buffer = @ \o << 29, 104, 50 >> \o << 29, 119, 2 >>
                                \o << 29, 72, 2 >> \o cmd]

\* new ESCPOSEncoder(paperWidth).printBarcode(data), as generateBarcodeLabel
\* calls it with data.sku
EncPrintBarcode ==
    /\ enc = EncInit
    /\ \E paperWidth \in PaperWidths, data \in Texts(MaxSku) :
           enc' = [PrintBarcode(NewEncoder(paperWidth), data)
                       EXCEPT !.call = "printBarcode", !.args = << data >>]
    /\ UNCHANGED << orch, view, listeners, net, bt, usb, store, svc >>

\* generateTSPLLabel. Texts are strings here; a text that is missing is the
\* empty string and a labelSize that is missing has both sizes 0, which the
\* code treats alike (filter(Boolean), || "", || 35, || 18).
GenerateTSPLLabel(data) ==
    LET width == IF data.labelSize.widthMm # 0 THEN data.labelSize.widthMm ELSE 35
        height == IF data.labelSize.heightMm # 0 THEN data.labelSize.heightMm ELSE 18
        NotEmpty(t) == t # ""
        parts == SelectSeq(<< data.brandName, data.categoryName, data.modelNo >>, NotEmpty)
        topText == Slice(IF parts = << >> THEN "" ELSE Join(parts, " / "), 25)
        centerX == (width * 8) \div 2
    IN  "SIZE " \o ToString(width) \o " mm, " \o ToString(height) \o " mm\r\n"
        \o "GAP 2 mm, 0\r\n"
        \o "DIRECTION 1\r\n"
        \o "CLS\r\n"
        \o "TEXT " \o ToString(centerX) \o ",15,\"0\",0,1,1,3,\"" \o topText \o "\"\r\n"
        \o "TEXT " \o ToString(centerX) \o ",40,\"0\",0,1,1,3,\"SHOP: " \o data.shopName \o "\"\r\n"
        \o "BARCODE 40,70,\"128\",50,1,0,2,2,\"" \o data.sku \o "\"\r\n"
        \o "PRINT " \o ToString(IF data.quantity # 0 THEN data.quantity ELSE 1) \o "\r\n"

\* The labels printed: texts without quotes, carriage returns or line feeds
BarcodeLabels ==
    [sku : {"", "SKU123"}, quantity : 0..MaxQuantity,
     brandName : {"", "Brand"}, categoryName : {"", "A category of 25 letters"},
     modelNo : {"", "M1"}, shopName : {"", "Shop"},
     labelSize : {[widthMm |-> 0, heightMm |-> 0], [widthMm |-> 50, heightMm |-> 30]}]

\* ESCPOSEncoder.generateTSPLLabel(data)
EncTSPLLabel ==
    /\ enc = EncInit
    /\ \E data \in BarcodeLabels :
           enc' = [EncInit EXCEPT !.call = "generateTSPLLabel", !.args = << data >>,
                                  !.script = GenerateTSPLLabel(data)]
    /\ UNCHANGED << orch, view, listeners, net, bt, usb, store, svc >>

EncNext ==
    \/ EncTwoColumn
    \/ EncThreeColumn
    \/ EncCenterText
    \/ EncWrap
    \/ EncKOTItem
    \/ EncInvoiceItem
    \/ EncPrintBarcode
    \/ EncTSPLLabel

EncSpec == Init /\ [][EncNext]_vars

\* C29: twoColumn(left, right) with combined length below the line budget
\* gives a line of exactly budget characters that starts with left and ends
\* with right; otherwise the line is left, one space, right, untruncated.
C29_TwoColumnFillsLine ==
    enc.call = "twoColumn" =>
        LET left == enc.args[1]
            right == enc.args[2]
            budget == CharsPerLine(enc.paperWidth)
            n == Len(enc.line)
        IN  /\ ~enc.threw
            /\ Len(left) + Len(right) < budget =>
                   /\ n = budget
                   /\ SubSeq(enc.line, 1, Len(left)) = left
                   /\ SubSeq(enc.line, n - Len(right) + 1, n) = right
                   /\ \A i \in (Len(left) + 1)..(n - Len(right)) : enc.line[i] = " "
            /\ Len(left) + Len(right) >= budget =>
                   enc.line = left \o << " " >> \o right

\* A 10-character and a 5-character text were laid out on 58 mm paper
C29_Witness ==
    /\ enc.call = "twoColumn"
    /\ enc.paperWidth = 58
    /\ enc.args = << Repeat("a", 10), Repeat("é", 5) >>
    /\ Len(enc.line) = 32

\* C30: threeColumn with total length at most the line budget gives a line
\* of exactly budget characters: left, floor(remainder / 2) spaces, center,
\* the rest of the remainder as spaces, right.
C30_ThreeColumnSplitsRemainder ==
    enc.call = "threeColumn" =>
        LET left == enc.args[1]
            center == enc.args[2]
            right == enc.args[3]
            budget == CharsPerLine(enc.paperWidth)
            remainder == budget - (Len(left) + Len(center) + Len(right))
            gap1 == remainder \div 2
        IN  remainder >= 0 =>
                /\ ~enc.threw
                /\ Len(enc.line) = budget
                /\ enc.line = left \o [i \in 1..gap1 |-> " "] \o center
                                   \o [i \in 1..(remainder - gap1) |-> " "] \o right

\* Three 1-character texts on 80 mm paper: gaps of 22 and 23 spaces
C30_Witness ==
    /\ enc.call = "threeColumn"
    /\ enc.paperWidth = 80
    /\ enc.args = << << "a" >>, << "é" >>, << "a" >> >>
    /\ Len(enc.line) = 48
    /\ enc.line[1] = "a" /\ enc.line[24] = "é" /\ enc.line[48] = "a"
    /\ \A i \in (2..23) \cup (25..47) : enc.line[i] = " "

\* C36: no job is printed twice (at most one of its sends succeeds) and no
\* job has more than 3 send attempts.
C36_PrintedOnceWithinThreeAttempts ==
    \A j \in JobIds :
        /\ ev[j].completed <= 1
        /\ ev[j].sendAttempts <= MaxRetries

\* C37: when connect(profile) settles after its adapter connect resolved
\* true, and the session that adapter opened is still live, the orchestrator
\* holds a profile and does not report 'error', whether the store calls
\* resolved or rejected.
C37_PersistenceDoesNotFailConnect ==
    [][ \A c \in 1..Len(connects) :
            (/\ connects[c].phase = "storage"
             /\ adapterOpen[KindOf(connects[c].cfg)]
             /\ StorageOk(c) \/ StorageFail(c))
                => /\ status' # "error"
                   /\ connectedPrinter' # NoPrinter ]_vars

\* C40: whenever the status is 'connected' or 'printing' with a profile
\* held, the adapter of that profile's type holds an open session.
C40_ConnectedMeansSessionOpen ==
    (status \in {"connected", "printing"} /\ connectedPrinter # NoPrinter)
        => adapterOpen[KindOf(connectedPrinter)]

\* C39: as long as every store call so far resolved, getDefaultPrinter()
\* returns profile p exactly when p is a stored profile with isDefault = true.
C39_DefaultIdAgreesWithFlags ==
    ~store.failed =>
        GetDefaultPrinter(store, TRUE, TRUE) =
            {store.printers[i] : i \in Defaults(store)}

\* ------------------------------------------- PrinterService.initialize
\* svc.ops[i] is the i-th call of initialize(): suspended at "readId" (the
\* read of DEFAULT_PRINTER inside getDefaultPrinter) or at "readList" (the
\* read of PRINTERS inside getPrinterById, for the id it read), or "done".
\* The timer an initialize() call schedules calls connect(defaultPrinter)
\* one second later; autoConnects counts the timers scheduled.
Initialize ==
    /\ Len(svc.ops) < MaxInitCalls
    /\ svc' = [svc EXCEPT !.ops = Append(@, [at |-> IF svc.isInitialized THEN "done"
                                                                          ELSE "readId",
                                             id |-> NoPrinter])]
    /\ UNCHANGED << orch, view, listeners, net, bt, usb, store, enc >>

\* getDefaultPrinterId settled: with no id getDefaultPrinter returns null
\* and initialize() sets isInitialized
InitReadId(i, readOk) ==
    /\ i \in 1..Len(svc.ops)
    /\ svc.ops[i].at = "readId"
    /\ LET id == GetDefaultPrinterId(store, readOk) IN
       svc' = IF id = NoPrinter
              THEN [svc EXCEPT !.ops[i].at = "done", !.isInitialized = TRUE]
              ELSE [svc EXCEPT !.ops[i].at = "readList", !.ops[i].id = id]
    /\ UNCHANGED << orch, view, listeners, net, bt, usb, store, enc >>

\* getPrinterById settled: initialize() schedules the auto-connect when a
\* profile was found, and sets isInitialized
InitReadList(i, readOk) ==
    /\ i \in 1..Len(svc.ops)
    /\ svc.ops[i].at = "readList"
    /\ LET found == FindIndex(GetAllPrinters(store, readOk), svc.ops[i].id) > 0 IN
       svc' = [svc EXCEPT !.ops[i].at = "done",
                          !.isInitialized = TRUE,
                          !.autoConnects = IF found THEN @ + 1 ELSE @]
    /\ UNCHANGED << orch, view, listeners, net, bt, usb, store, enc >>

InitNext ==
    \/ \E printer \in PrinterConfigs : StoreSavePrinter(printer)
    \/ \E id \in PrinterIds : StoreDeletePrinter(id)
    \/ \E id \in PrinterIds : StoreSetDefaultPrinter(id)
    \/ \E id \in PrinterIds : StoreUpdateLastConnected(id)
    \/ Initialize
    \/ \E i \in 1..Len(svc.ops), readOk \in BOOLEAN : InitReadId(i, readOk)
    \/ \E i \in 1..Len(svc.ops), readOk \in BOOLEAN : InitReadList(i, readOk)

InitSpec == Init /\ [][InitNext]_vars

\* C38: at most one auto-connect to the default printer is scheduled,
\* however many times initialize() is called.
C38_OneAutoConnect == svc.autoConnects <= 1

\* C31: twoColumn, threeColumn, centerText and wrap return normally and
\* append a line to the buffer, whatever the texts given.
C31_LayoutNeverThrows ==
    enc.call \in {"twoColumn", "threeColumn", "centerText", "wrap"} =>
        /\ ~enc.threw
        /\ Len(enc.lines) >= 1

\* C33 as stated: wrap emits the words of the text in their order, splits
\* no word, fills each line greedily and emits no line longer than the
\* budget.
C33_WrapWithinBudget ==
    enc.call = "wrap" =>
        LET budget == CharsPerLine(enc.paperWidth)
            NonEmpty(w) == w # << >>
        IN  /\ ~enc.threw
            /\ SelectSeq(Split(Join(enc.lines, << " " >>)), NonEmpty)
                   = SelectSeq(Split(enc.args[1]), NonEmpty)
            /\ \A i \in 1..Len(enc.lines) :
                   /\ \A k \in 1..Len(Split(enc.lines[i])) : Split(enc.lines[i])[k] # << >>
                   /\ i > 1 => Len(enc.lines[i - 1]) + 1 + Len(Split(enc.lines[i])[1]) > budget
                   /\ Len(enc.lines[i]) <= budget

\* C33 amended: wrap emits the words of the text in their order, splits no
\* word and fills each line greedily; a line is longer than the budget only
\* when it is a single word that is itself longer than the budget.
C33_WrapGreedyWholeWords ==
    enc.call = "wrap" =>
        LET budget == CharsPerLine(enc.paperWidth)
            NonEmpty(w) == w # << >>
        IN  /\ ~enc.threw
            /\ SelectSeq(Split(Join(enc.lines, << " " >>)), NonEmpty)
                   = SelectSeq(Split(enc.args[1]), NonEmpty)
            /\ \A i \in 1..Len(enc.lines) :
                   /\ \A k \in 1..Len(Split(enc.lines[i])) : Split(enc.lines[i])[k] # << >>
                   /\ i > 1 => Len(enc.lines[i - 1]) + 1 + Len(Split(enc.lines[i])[1]) > budget
                   /\ Len(enc.lines[i]) > budget => Len(Split(enc.lines[i])) = 1

\* Three words were wrapped on 58 mm paper: two that fill a line exactly
\* and one longer than the budget, which has a line of its own
C33_Witness ==
    /\ enc.call = "wrap"
    /\ enc.paperWidth = 58
    /\ enc.args = << Join(<< Repeat("a", 15), Repeat("a", 16), Repeat("a", 33) >>, << " " >>) >>
    /\ enc.lines = << Join(<< Repeat("a", 15), Repeat("a", 16) >>, << " " >>), Repeat("a", 33) >>

\* C32: in an item row the item name is cut to budget - 5 characters on a
\* kitchen ticket and to budget - 5 - 10 characters on an invoice: the row
\* is the quantity field followed by that many characters of the name (the
\* whole name when it is shorter).
C32_ItemNameWidth ==
    enc.call \in {"kotItem", "invoiceItem"} =>
        LET item == enc.args[1]
            budget == CharsPerLine(enc.paperWidth)
            width == IF enc.call = "kotItem" THEN budget - 5 ELSE budget - 5 - 10
            qty == PadEnd(Str(item.quantity) \o << "x" >>, QTY_WIDTH)
            start == qty \o Slice(item.productName, width)
            row == enc.lines[1]
        IN  /\ Len(row) >= Len(start)
            /\ SubSeq(row, 1, Len(start)) = start
            /\ enc.call = "kotItem" => row = start

\* C34: printBarcode writes, in this order, the height, width and text
\* position commands, then GS k with the code-128 identifier 73, one length
\* byte equal to the number of payload bytes, and the payload.
C34_BarcodeLengthPrefix ==
    enc.call = "printBarcode" =>
        LET payload == Encode(enc.args[1])
        IN  enc.buffer = << 27, 64 >> \o << 29, 104, 50 >> \o << 29, 119, 2 >>
                             \o << 29, 72, 2 >> \o << 29, 107, 73, Len(payload) >>
                             \o payload

\* The pieces of a script between its carriage-return/line-feed pairs; the
\* last piece is empty when the script ends with a pair
RECURSIVE SplitCRLF(_)
SplitCRLF(script) ==
    IF \A i \in 1..(Len(script) - 1) : SubSeq(script, i, i + 1) # "\r\n" THEN << script >>
    ELSE LET i == CHOOSE k \in 1..(Len(script) - 1) :
                      /\ SubSeq(script, k, k + 1) = "\r\n"
                      /\ \A m \in 1..(k - 1) : SubSeq(script, m, m + 1) # "\r\n"
         IN  << SubSeq(script, 1, i - 1) >> \o SplitCRLF(SubSeq(script, i + 2, Len(script)))

StartsWith(text, prefix) ==
    Len(text) >= Len(prefix) /\ SubSeq(text, 1, Len(prefix)) = prefix

Contains(text, part) ==
    \E i \in 1..(Len(text) - Len(part) + 1) : SubSeq(text, i, i + Len(part) - 1) = part

\* C35: the script of generateTSPLLabel is the lines SIZE, GAP, DIRECTION,
\* CLS, TEXT, TEXT, BARCODE, PRINT, each ended by CR LF; the one BARCODE line
\* holds the sku in double quotes and the one PRINT line the quantity asked.
C35_LabelScript ==
    enc.call = "generateTSPLLabel" =>
        LET data == enc.args[1]
            pieces == SplitCRLF(enc.script)
            commands == << "SIZE", "GAP", "DIRECTION", "CLS", "TEXT", "TEXT", "BARCODE", "PRINT" >>
        IN  /\ Len(pieces) = 9
            /\ pieces[9] = ""
            /\ \A i \in 1..8 : StartsWith(pieces[i], commands[i])
            /\ Contains(pieces[7], "\"" \o data.sku \o "\"")
            /\ pieces[8] = "PRINT " \o ToString(data.quantity)

====
